---- MODULE Spec2Model ----
(***************************************************************************)
(* State-machine model of the StatsD callback plugin                       *)
(* (plugins/callback/statsd.py) and of the one-shot statsd module          *)
(* (plugins/modules/monitoring/statsd.py).                                 *)
(*                                                                         *)
(* Python strings are TLA+ strings, handled character by character with    *)
(* SubSeq and \o.  A value that may be absent (None, an attribute that was *)
(* never assigned, the empty dict that start_datetimes["playbook"] holds   *)
(* before the first playbook start) is a sequence of length 0 or 1.        *)
(* datetime.utcnow() is the variable now, counted in clock ticks.          *)
(***************************************************************************)
EXTENDS Integers, Sequences, FiniteSets, TLC

\* ------------------------------------------------------------------ bounds
\* last clock tick at which the model still lets time pass
MaxClock == 1

\* ------------------------------------------------------- string functions
\* the string as it is, no occurrence replaced
replace_none(s, old, new) == s

RECURSIVE replace(_, _, _)
\* str.replace(old, new) for a one-character old
replace(s, old, new) ==
    IF Len(s) = 0 THEN ""
    ELSE (IF SubSeq(s, 1, 1) = old THEN new ELSE SubSeq(s, 1, 1))
         \o replace(SubSeq(s, 2, Len(s)), old, new)

RECURSIVE FindFirst(_, _, _)
\* index of the first occurrence of the character c in s at or after i, 0 if none
FindFirst(s, c, i) ==
    IF i > Len(s) THEN 0
    ELSE IF SubSeq(s, i, i) = c THEN i
    ELSE FindFirst(s, c, i + 1)

RECURSIVE FindLast(_, _, _)
\* index of the last occurrence of the character c in s at or before i, 0 if none
FindLast(s, c, i) ==
    IF i < 1 THEN 0
    ELSE IF SubSeq(s, i, i) = c THEN i
    ELSE FindLast(s, c, i - 1)

\* os.path.basename: what follows the last "/"
basename(p) == SubSeq(p, FindLast(p, "/", Len(p)) + 1, Len(p))

\* the whole name kept, as if split(".")[0] were left out
split_none(s) == s

\* s.split(".")[0]: what precedes the first "."
split_first(s) ==
    IF FindFirst(s, ".", 1) = 0 THEN s ELSE SubSeq(s, 1, FindFirst(s, ".", 1) - 1)

Digit(d) == SubSeq("0123456789", d + 1, d + 1)

RECURSIVE IntStr(_)
\* str() of a natural number
IntStr(n) == IF n < 10 THEN Digit(n) ELSE IntStr(n \div 10) \o Digit(n % 10)

\* str() of the float that timedelta.total_seconds() returns, for a
\* difference of d clock ticks.  A tick is 2.5 s, that is 25 tenths of a
\* second, so the floats are 0.0, 2.5, 5.0, 7.5, ...
total_seconds_str(d) ==
    LET tenths == (IF d < 0 THEN 0 - d ELSE d) * 25
    IN  (IF d < 0 THEN "-" ELSE "") \o IntStr(tenths \div 10) \o "." \o Digit(tenths % 10)

\* ------------------------------------------------------------------ inputs
\* playbook objects: _basedir and _file_name
Playbooks ==
    { [basedir |-> "/plays", file_name |-> "deploy.yml"],
      [basedir |-> "/opt/foo.bar/plays", file_name |-> "/opt/foo.bar/plays/site.retry.yml"] }

\* str(play)
Plays == {"web"}

\* task objects: _uuid and get_name()
Tasks ==
    { [uuid |-> "u1", name |-> "install pkg"],
      [uuid |-> "u2", name |-> "restart svc"] }

TaskUuids == {t.uuid : t \in Tasks}

\* result._host
Hosts == {"node1"}

\* result._task_fields: the check_mode entry, which may be absent
CheckModeFields == {<<>>, <<TRUE>>, <<FALSE>>}

\* the five v2_runner_on_* handlers
OutcomeKinds == {"ok", "skipped", "failed", "async_failed", "unreachable"}

\* option values as get_option returns them: None or a value
HostOptions == {<<>>, <<"127.0.0.1">>}
PortOptions == {<<>>, <<9125>>}

\* what a use of the socket that does not succeed ends in: connect or sendall
\* raises, in both cases an OSError that send_metric does not handle and
\* that skips its close()
SendFailures == {"OSError"}

\* AggregateStats.__dict__ as the ordered list of (attribute, dict) it
\* iterates as, each inner dict the ordered list of its (host, count) items
StatsInputs ==
    { << <<"ok", << <<"hostA", 3>>, <<"hostB", 1>> >> >>, <<"failures", <<>> >> >>,
      << <<"processed", << <<"node1", 1>> >> >>, <<"failures", << <<"node1", 2>> >> >>,
         <<"ok", <<>> >>, <<"custom", <<>> >> >>,
      << <<"processed", <<>> >>, <<"ok", <<>> >> >> }

\* ------------------------------------------------------------------- state
VARIABLES
    pc,                  \* "new" after __init__, "ready" after set_options, "raised" if it raised
    disabled,            \* CallbackModule.disabled
    statsd_host,         \* StatsD.statsd_host (None or a string)
    statsd_port,         \* StatsD.statsd_port (absent until StatsD.__init__ ran)
    ansible_check_mode,  \* StatsD.ansible_check_mode
    ansible_basedir,     \* StatsD.ansible_basedir
    ansible_playbook,    \* StatsD.ansible_playbook
    ansible_play,        \* StatsD.ansible_play (absent until assigned)
    ansible_task,        \* StatsD.ansible_task (absent until assigned)
    start_datetimes,     \* CallbackModule.start_datetimes
    now,                 \* datetime.utcnow()
    last,                \* what the most recent handler call did
    m_pc,                \* where main() of the statsd module is
    m_params,            \* module.params
    m_sends,             \* the calls main() made on the statsd client
    m_exc,               \* the exception the try block raised, if any
    m_reports            \* the results main() reported: exit_json and fail_json calls

callback_vars ==
    << pc, disabled, statsd_host, statsd_port, ansible_check_mode, ansible_basedir,
       ansible_playbook, ansible_play, ansible_task, start_datetimes, now, last >>

module_vars == << m_pc, m_params, m_sends, m_exc, m_reports >>

vars == << callback_vars, module_vars >>

context == << ansible_check_mode, ansible_basedir, ansible_playbook, ansible_play, ansible_task >>

\* the record kept of a handler call: the handler, its arguments, the
\* exception it let escape ("" if none), the metric strings it composed, in
\* order, how many of them it passed to send_metric (always the first ones),
\* and what each use of a socket ended in (the i-th socket is the one of the
\* i-th metric: outside check mode every send_metric call uses one)
Call(event, args, raised, metrics, calls, wire) ==
    [event |-> event, args |-> args, raised |-> raised, metrics |-> metrics,
     calls |-> calls, wire |-> wire]

NoCall == Call("", <<>>, "", <<>>, 0, <<>>)

\* ------------------------------------------------------------------ StatsD
\* StatsD.send_metric: in check mode nothing happens; otherwise one socket is
\* created, connected and written to, and connect or sendall may raise.
\* outcome is what this use of the socket ends in.
send_metric(metric, check_mode, outcome) ==
    IF check_mode
    THEN [raised |-> "", wire |-> <<>>]
    ELSE [raised |-> IF outcome = "ok" THEN "" ELSE outcome,
          wire |-> <<outcome>>]

\* statsd.close() is the last statement of send_metric: it is reached when
\* connect and sendall returned, and skipped when one of them raised
socket_closed(outcome) == outcome = "ok"

\* a sender that returns at once and leaves the lines for later
send_deferred(metrics, check_mode, outcomes) ==
    [raised |-> "", calls |-> 0, wire |-> <<>>]

RECURSIVE send_in_order(_, _, _)
\* consecutive self.statsd.send_metric(...) statements of a handler: the
\* first one that raises ends the handler
send_in_order(metrics, check_mode, outcomes) ==
    IF metrics = <<>>
    THEN [raised |-> "", calls |-> 0, wire |-> <<>>]
    ELSE LET first == send_metric(Head(metrics), check_mode, Head(outcomes))
         IN  IF first.raised # ""
             THEN [raised |-> first.raised, calls |-> 1, wire |-> first.wire]
             ELSE LET rest == send_in_order(Tail(metrics), check_mode, Tail(outcomes))
                  IN  [raised |-> rest.raised,
                       calls |-> 1 + rest.calls,
                       wire |-> first.wire \o rest.wire]

\* the outcomes of n socket uses of which the fail_at-th fails (0: none does)
SocketOutcomes(n, fail_at, failure) ==
    [i \in 1..n |-> IF i = fail_at THEN failure ELSE "ok"]

\* the ways n consecutive send_metric calls can go: in check mode no socket
\* is used; otherwise every use succeeds or one of them is the first to fail
SocketRuns(n, check_mode) ==
    IF check_mode THEN {SocketOutcomes(n, 0, "ok")}
    ELSE {SocketOutcomes(n, 0, "ok")}
         \cup {SocketOutcomes(n, i, f) : i \in 1..n, f \in SendFailures}

\* ---------------------------------------------------------- CallbackModule
\* CallbackModule.__init__; the StatsD object does not exist yet
CallbackInit ==
    /\ pc = "new"
    /\ disabled = FALSE
    /\ statsd_host = <<>>
    /\ statsd_port = <<>>
    /\ ansible_check_mode = TRUE
    /\ ansible_basedir = ""
    /\ ansible_playbook = ""
    /\ ansible_play = <<>>
    /\ ansible_task = <<>>
    /\ start_datetimes = [playbook |-> <<>>, play |-> <<>>, task |-> <<>>]
    /\ now = 0
    /\ last = NoCall

\* set_options: a missing host or port sets disabled; then StatsD(...) is
\* built, whose __init__ calls int(statsd_port), a TypeError for None
set_options(host, port) ==
    /\ pc = "new"
    /\ disabled' = (host = <<>> \/ port = <<>>)
    /\ IF port = <<>>
       THEN /\ pc' = "raised"
            /\ last' = Call("set_options", <<host, port>>, "TypeError", <<>>, 0, <<>>)
            /\ UNCHANGED << statsd_host, statsd_port, context >>
       ELSE /\ pc' = "ready"
            /\ last' = Call("set_options", <<host, port>>, "", <<>>, 0, <<>>)
            /\ statsd_host' = host
            /\ statsd_port' = port
            /\ ansible_check_mode' = TRUE
            /\ ansible_basedir' = ""
            /\ ansible_playbook' = ""
            /\ UNCHANGED << ansible_play, ansible_task >>
    /\ UNCHANGED << start_datetimes, now, module_vars >>

\* the plugin loader calls the handlers of a callback that was configured and
\* is not disabled
Dispatched == pc = "ready" /\ ~disabled

\* time passes between two handler calls
Tick ==
    /\ now < MaxClock
    /\ now' = now + 1
    /\ UNCHANGED << pc, disabled, statsd_host, statsd_port, context, start_datetimes, last,
                    module_vars >>

\* a lookup that falls back to the current time for a start that was never
\* recorded, instead of raising
_runtime_default_now(result) ==
    IF result.type = "AggregateStats"
    THEN [raised |-> "",
          value |-> << IF start_datetimes.playbook = <<>> THEN 0
                       ELSE now - start_datetimes.playbook[1] >>]
    ELSE [raised |-> "",
          value |-> << IF result.uuid \notin DOMAIN start_datetimes.task THEN 0
                       ELSE now - start_datetimes.task[result.uuid] >>]

\* _runtime: the time since the recorded start, in clock ticks.  The
\* playbook entry is still the empty dict before the first playbook start
\* (datetime - dict is a TypeError); an unknown task uuid is a KeyError.
_runtime(result) ==
    IF result.type = "AggregateStats"
    THEN IF start_datetimes.playbook = <<>>
         THEN [raised |-> "TypeError", value |-> <<>>]
         ELSE [raised |-> "", value |-> << now - start_datetimes.playbook[1] >>]
    ELSE IF result.uuid \notin DOMAIN start_datetimes.task
         THEN [raised |-> "KeyError", value |-> <<>>]
         ELSE [raised |-> "", value |-> << now - start_datetimes.task[result.uuid] >>]

\* setdefault instead of assignment: a repeated start keeps the first time
record_first_task_start(uuid) ==
    [start_datetimes EXCEPT !.task =
        [u \in DOMAIN start_datetimes.task \cup {uuid} |->
            IF u \in DOMAIN start_datetimes.task THEN start_datetimes.task[u] ELSE now]]

\* start_datetimes["task"][uuid] = datetime.utcnow()
record_task_start(uuid) ==
    [start_datetimes EXCEPT !.task =
        [u \in DOMAIN start_datetimes.task \cup {uuid} |->
            IF u = uuid THEN now ELSE start_datetimes.task[u]]]

\* a playbook start that begins with an empty table of task starts
v2_playbook_on_start_clears_tasks(playbook) ==
    /\ Dispatched
    /\ start_datetimes' = [start_datetimes EXCEPT !.playbook = <<now>>, !.task = <<>>]
    /\ ansible_basedir' = replace(playbook.basedir, ".", "_")
    /\ ansible_playbook' = split_first(basename(playbook.file_name))
    /\ last' = Call("v2_playbook_on_start", <<playbook.basedir>>, "", <<>>, 0, <<>>)
    /\ UNCHANGED << pc, disabled, statsd_host, statsd_port, ansible_check_mode,
                    ansible_play, ansible_task, now, module_vars >>

v2_playbook_on_start(playbook) ==
    /\ Dispatched
    /\ start_datetimes' = [start_datetimes EXCEPT !.playbook = <<now>>]
    /\ ansible_basedir' = replace(playbook.basedir, ".", "_")
    /\ ansible_playbook' = split_first(basename(playbook.file_name))
    /\ last' = Call("v2_playbook_on_start", <<playbook.basedir>>, "", <<>>, 0, <<>>)
    /\ UNCHANGED << pc, disabled, statsd_host, statsd_port, ansible_check_mode,
                    ansible_play, ansible_task, now, module_vars >>

\* start_datetimes["play"] is assigned here and read nowhere: the model keeps
\* that it holds a datetime, not which one
v2_playbook_on_play_start(play) ==
    /\ Dispatched
    /\ start_datetimes' = [start_datetimes EXCEPT !.play = <<"datetime">>]
    /\ ansible_play' = <<play>>
    /\ last' = Call("v2_playbook_on_play_start", <<>>, "", <<>>, 0, <<>>)
    /\ UNCHANGED << pc, disabled, statsd_host, statsd_port, ansible_check_mode,
                    ansible_basedir, ansible_playbook, ansible_task, now, module_vars >>

\* a task start that sets the task name only while none is set
v2_playbook_on_task_start_keeps_name(task) ==
    /\ Dispatched
    /\ start_datetimes' = record_task_start(task.uuid)
    /\ ansible_task' = (IF ansible_task = <<>> THEN <<task.name>> ELSE ansible_task)
    /\ last' = Call("v2_playbook_on_task_start", <<task.uuid, now>>, "", <<>>, 0, <<>>)
    /\ UNCHANGED << pc, disabled, statsd_host, statsd_port, ansible_check_mode,
                    ansible_basedir, ansible_playbook, ansible_play, now, module_vars >>

v2_playbook_on_task_start(task) ==
    /\ Dispatched
    /\ start_datetimes' = record_task_start(task.uuid)
    /\ ansible_task' = <<task.name>>
    /\ last' = Call("v2_playbook_on_task_start", <<task.uuid, now>>, "", <<>>, 0, <<>>)
    /\ UNCHANGED << pc, disabled, statsd_host, statsd_port, ansible_check_mode,
                    ansible_basedir, ansible_playbook, ansible_play, now, module_vars >>

\* a handler task start that, like a task start, also sets the task name
v2_playbook_on_handler_task_start_sets_name(task) ==
    /\ Dispatched
    /\ start_datetimes' = record_task_start(task.uuid)
    /\ ansible_task' = <<task.name>>
    /\ last' = Call("v2_playbook_on_handler_task_start", <<task.uuid, now>>, "", <<>>, 0, <<>>)
    /\ UNCHANGED << pc, disabled, statsd_host, statsd_port, ansible_check_mode,
                    ansible_basedir, ansible_playbook, ansible_play, now, module_vars >>

v2_playbook_on_handler_task_start(task) ==
    /\ Dispatched
    /\ start_datetimes' = record_task_start(task.uuid)
    /\ last' = Call("v2_playbook_on_handler_task_start", <<task.uuid, now>>, "", <<>>, 0, <<>>)
    /\ UNCHANGED << pc, disabled, statsd_host, statsd_port, context, now, module_vars >>

\* the f-strings of the v2_runner_on_* handlers, evaluated once the play and
\* task attributes exist
task_counter(host, kind) ==
    "ansible.counter." \o ansible_basedir \o "." \o ansible_playbook \o "."
        \o ansible_play[1] \o "." \o ansible_task[1] \o "." \o host \o "." \o kind \o ":1|c"

task_gauge(host, kind, runtime) ==
    "ansible.gauge." \o ansible_basedir \o "." \o ansible_playbook \o "."
        \o ansible_play[1] \o "." \o ansible_task[1] \o "." \o host \o "." \o kind
        \o ":" \o total_seconds_str(runtime) \o "|g"

\* a lookup whose default is False: get("check_mode", False)
get_check_mode_default_false(field) == IF field = <<>> THEN FALSE ELSE field[1]

\* result._task_fields.get("check_mode", True)
get_check_mode(field) == IF field = <<>> THEN TRUE ELSE field[1]

\* the common body of v2_runner_on_ok, _skipped, _failed, _async_failed and
\* _unreachable, which differ in the outcome word only.  The result carries
\* any check_mode entry, and the sockets of the two sends go any way they can.
\* The call is recorded with the task uuid, the host, the outcome word and the
\* check_mode entry of its result.
v2_runner_on(kind, uuid, host) ==
    LET event == "v2_runner_on_" \o kind
        runtime == _runtime([type |-> "TaskResult", uuid |-> uuid])
        counter == task_counter(host, kind)
        gauge == task_gauge(host, kind, runtime.value[1])
    IN  /\ Dispatched
        /\ \E field \in CheckModeFields :
              LET check_mode == get_check_mode(field)
                  args == <<uuid, host, kind, field>>
              IN  /\ ansible_check_mode' = check_mode
                  /\ IF runtime.raised # ""
                     THEN last' = Call(event, args, runtime.raised, <<>>, 0, <<>>)
                     ELSE IF ansible_play = <<>> \/ ansible_task = <<>>
                     THEN last' = Call(event, args, "AttributeError", <<>>, 0, <<>>)
                     ELSE \E outcomes \in SocketRuns(2, check_mode) :
                            LET sent == send_in_order(<<counter, gauge>>, check_mode, outcomes)
                            IN  last' = Call(event, args, sent.raised, <<counter, gauge>>,
                                             sent.calls, sent.wire)
        /\ UNCHANGED << pc, disabled, statsd_host, statsd_port, ansible_basedir,
                        ansible_playbook, ansible_play, ansible_task, start_datetimes, now,
                        module_vars >>

\* a result the engine may hand to a v2_runner_on_* handler
RunnerCall(kind) ==
    \E task \in Tasks, host \in Hosts : v2_runner_on(kind, task.uuid, host)

v2_runner_on_ok == RunnerCall("ok")

v2_runner_on_skipped == RunnerCall("skipped")

v2_runner_on_failed == RunnerCall("failed")

v2_runner_on_async_failed == RunnerCall("async_failed")

v2_runner_on_unreachable == RunnerCall("unreachable")

\* the two format() calls in the loop of v2_playbook_on_stats
stats_counter(k1, k2) ==
    "ansible.counter.stats." \o ansible_basedir \o "." \o ansible_playbook \o "."
        \o k1 \o "." \o k2 \o ":1|c"

stats_gauge(runtime) ==
    "ansible.gauge.stats." \o ansible_basedir \o "." \o ansible_playbook
        \o ":" \o total_seconds_str(runtime) \o "|g"

RECURSIVE inner_loop_gauge_per_host(_, _, _)
\* a loop whose gauge is named after the category and the host, as its
\* counter is
inner_loop_gauge_per_host(k1, items, runtime) ==
    IF items = <<>> THEN <<>>
    ELSE << stats_counter(k1, Head(items)[1]),
            "ansible.gauge.stats." \o ansible_basedir \o "." \o ansible_playbook \o "."
                \o k1 \o "." \o Head(items)[1] \o ":" \o total_seconds_str(runtime) \o "|g" >>
         \o inner_loop_gauge_per_host(k1, Tail(items), runtime)

RECURSIVE inner_loop(_, _, _)
\* for k2 in s[k1].keys(): the counter and the gauge of each k2, in order
inner_loop(k1, items, runtime) ==
    IF items = <<>> THEN <<>>
    ELSE << stats_counter(k1, Head(items)[1]), stats_gauge(runtime) >>
         \o inner_loop(k1, Tail(items), runtime)

RECURSIVE outer_loop(_, _)
\* for k1 in s.keys(): if len(s[k1]): ...
outer_loop(s, runtime) ==
    IF s = <<>> THEN <<>>
    ELSE (IF Len(Head(s)[2]) # 0 THEN inner_loop(Head(s)[1], Head(s)[2], runtime) ELSE <<>>)
         \o outer_loop(Tail(s), runtime)

\* each pass of the inner loop composes its counter and its gauge before it
\* sends either: what was composed when n send_metric calls were made
composed_before(metrics, n) == SubSeq(metrics, 1, 2 * ((n + 1) \div 2))

on_stats(stats) ==
    LET runtime == _runtime([type |-> "AggregateStats"])
        metrics == outer_loop(stats, runtime.value[1])
    IN  /\ Dispatched
        /\ IF runtime.raised # ""
           THEN last' = Call("v2_playbook_on_stats", <<stats>>, runtime.raised,
                             <<>>, 0, <<>>)
           ELSE \E outcomes \in SocketRuns(Len(metrics), ansible_check_mode) :
                  LET sent == send_in_order(metrics, ansible_check_mode, outcomes)
                  IN  last' = Call("v2_playbook_on_stats", <<stats>>, sent.raised,
                                   composed_before(metrics, sent.calls),
                                   sent.calls, sent.wire)
        /\ UNCHANGED << pc, disabled, statsd_host, statsd_port, context, start_datetimes, now,
                        module_vars >>

\* the number of send_metric calls v2_playbook_on_stats makes for stats
stats_sends(stats) == Len(outer_loop(stats, 0))

\* a stats object the engine may hand over at the end of a run
v2_playbook_on_stats == \E stats \in StatsInputs : on_stats(stats)

Next ==
    \/ \E host \in HostOptions, port \in PortOptions : set_options(host, port)
    \/ Tick
    \/ \E playbook \in Playbooks : v2_playbook_on_start(playbook)
    \/ \E play \in Plays : v2_playbook_on_play_start(play)
    \/ \E task \in Tasks : v2_playbook_on_task_start(task)
    \/ \E task \in Tasks : v2_playbook_on_handler_task_start(task)
    \/ v2_runner_on_ok
    \/ v2_runner_on_skipped
    \/ v2_runner_on_failed
    \/ v2_runner_on_async_failed
    \/ v2_runner_on_unreachable
    \/ v2_playbook_on_stats

\* ------------------------------------------------- the statsd module, main()
\* module.params as AnsibleModule fills them from argument_spec: metric_type
\* has choices but neither required=True nor a default, so it may be None
ModuleParams ==
    [ protocol : {"udp", "tcp"},
      metric : {"my_counter"},
      metric_type : {<<>>, <<"counter">>, <<"gauge">>},
      metric_prefix : {"", "app"},
      value : {1, 7},
      delta : BOOLEAN ]

\* to_native(exc) of what the statsd client may raise
ClientErrors == {"[Errno -2] Name or service not known", "timed out"}

\* a fail_json that returns to its caller, so that main() goes on to exit_json
except_clause_returns(exc) ==
    /\ m_exc' = <<exc>>
    /\ m_reports' = Append(m_reports,
                           [failed |-> TRUE, error |-> "Failed to sending to StatsD " \o exc])
    /\ m_pc' = "sent"

\* the except clause: fail_json reports the failure and ends the process
except_clause(exc) ==
    /\ m_exc' = <<exc>>
    /\ m_reports' = Append(m_reports,
                           [failed |-> TRUE, error |-> "Failed to sending to StatsD " \o exc])
    /\ m_pc' = "exited"

\* StatsClient(...) or TCPStatsClient(...), which may raise
new_client ==
    /\ m_pc = "try"
    /\ \/ /\ m_pc' = "client"
          /\ UNCHANGED << m_exc, m_reports >>
       \/ \E exc \in ClientErrors : except_clause(exc)
    /\ UNCHANGED << m_params, m_sends, callback_vars >>

\* the call main() makes on the client for a metric type
client_call(metric_type, metric, value, delta) ==
    IF metric_type = <<"counter">>
    THEN << [op |-> "incr", metric |-> metric, value |-> value, delta |-> FALSE] >>
    ELSE IF metric_type = <<"gauge">>
    THEN << [op |-> "gauge", metric |-> metric, value |-> value, delta |-> delta] >>
    ELSE <<>>

\* if metric_type == 'counter': statsd.incr(...) elif 'gauge': statsd.gauge(...)
submit ==
    /\ m_pc = "client"
    /\ LET call == client_call(m_params.metric_type, m_params.metric,
                               m_params.value, m_params.delta)
       IN  \/ /\ m_sends' = m_sends \o call
              /\ m_pc' = "sent"
              /\ UNCHANGED << m_exc, m_reports >>
           \/ /\ call # <<>>
              /\ m_sends' = m_sends \o call
              /\ \E exc \in ClientErrors : except_clause(exc)
    /\ UNCHANGED << m_params, callback_vars >>

\* module.exit_json(**result), reached when the try block raised nothing
exit_json ==
    /\ m_pc = "sent"
    /\ m_reports' = Append(m_reports, [failed |-> FALSE, error |-> ""])
    /\ m_pc' = "exited"
    /\ UNCHANGED << m_params, m_sends, m_exc, callback_vars >>

ModuleIdle ==
    /\ m_pc = "idle"
    /\ m_params = <<>>
    /\ m_sends = <<>>
    /\ m_exc = <<>>
    /\ m_reports = <<>>

\* ---------------------------------------------------------- specifications
\* the callback plugin over a run of the engine
Init == CallbackInit /\ ModuleIdle

Spec == Init /\ [][Next]_vars

\* one invocation of the module
ModuleInit ==
    /\ CallbackInit
    /\ m_pc = "try"
    /\ m_params \in ModuleParams
    /\ m_sends = <<>>
    /\ m_exc = <<>>
    /\ m_reports = <<>>

ModuleNext == new_client \/ submit \/ exit_json

ModuleSpec == ModuleInit /\ [][ModuleNext]_vars

\* ------------------------------------------------------------ properties
RunnerEvents == {"v2_runner_on_" \o kind : kind \in OutcomeKinds}

\* the most recent call was a v2_runner_on_* handler / v2_playbook_on_stats
IsRunner == last.event \in RunnerEvents
IsStats == last.event = "v2_playbook_on_stats"

\* the metrics the most recent call passed to send_metric, in order
Calls == SubSeq(last.metrics, 1, last.calls)

\* the lines the sockets of the most recent call were used for, in order
WireLines == SubSeq(last.metrics, 1, Len(last.wire))

SomeSendFailed == \E i \in 1..Len(last.wire) : last.wire[i] # "ok"

\* the send_metric calls the most recent call makes when none of them raises
CallsDue ==
    IF IsRunner THEN 2 ELSE IF IsStats THEN stats_sends(last.args[1]) ELSE 0

\* the result of the most recent v2_runner_on_* call belongs to a task whose
\* start was recorded, and the play and the task name are set
RunnerInsideTask ==
    /\ IsRunner
    /\ last.args[1] \in DOMAIN start_datetimes.task
    /\ ansible_play # <<>>
    /\ ansible_task # <<>>

\* C1: a send that fails (connect or write error) while a v2_runner_on_* or
\* v2_playbook_on_stats call is handled does not leave the handler as an
\* exception, is not tried again, and every later send of the call is made.
C1_SendFailureContained ==
    ((IsRunner \/ IsStats) /\ SomeSendFailed) =>
        /\ last.raised = ""
        /\ Len(last.wire) = last.calls
        /\ last.calls = CallsDue

\* C2: a v2_runner_on_* call for a task uuid with no recorded start, and a
\* v2_playbook_on_stats call with no playbook start before it, each end in an
\* exception, pass nothing to send_metric and use no socket.
C2_MissingStartFails ==
    /\ (IsRunner /\ last.args[1] \notin DOMAIN start_datetimes.task) =>
           (last.raised # "" /\ last.calls = 0 /\ last.wire = <<>>)
    /\ (IsStats /\ start_datetimes.playbook = <<>>) =>
           (last.raised # "" /\ last.calls = 0 /\ last.wire = <<>>)

\* a result for a task that never started arrived outside check mode, after
\* another task had started and the play and task names were set
C2_Witness ==
    /\ IsRunner
    /\ last.args[1] \notin DOMAIN start_datetimes.task
    /\ ansible_check_mode = FALSE
    /\ ansible_play # <<>>
    /\ ansible_task # <<>>
    /\ last.raised = "KeyError"

\* C3: for a v2_runner_on_* call of any of the five kinds, handled inside its
\* task: when the result's check_mode is true no line is sent, when it is
\* false the counter line and the gauge line of the call are sent, those two
\* and no other.  ansible_check_mode is the value the call itself stored.
C3_CheckModeGatesBothLines ==
    RunnerInsideTask =>
        IF ansible_check_mode
        THEN WireLines = <<>>
        ELSE WireLines = << task_counter(last.args[2], last.args[3]),
                            last.metrics[2] >>

\* C4: set_options with no host or no port raises nothing and leaves the
\* callback configured and disabled.
C4_MissingOptionDisables ==
    (last.event = "set_options" /\ (last.args[1] = <<>> \/ last.args[2] = <<>>)) =>
        (last.raised = "" /\ pc = "ready" /\ disabled)

\* C5: a v2_runner_on_* call for a started task, handled while the play name
\* or the task name was never set, raises nothing before its sends and
\* composes both lines (with an empty segment for the missing name).
C5_UnsetSegmentIsEmpty ==
    (/\ IsRunner
     /\ last.args[1] \in DOMAIN start_datetimes.task
     /\ (ansible_play = <<>> \/ ansible_task = <<>>)) =>
        (last.raised # "AttributeError" /\ Len(last.metrics) = 2)

\* the most recent call is the ok result of task u1 ("install pkg") on node1,
\* after a playbook start with basedir "/plays" and file "deploy.yml" and the
\* start of play "web"
C6_Case ==
    /\ IsRunner
    /\ SubSeq(last.args, 1, 3) = <<"u1", "node1", "ok">>
    /\ "u1" \in DOMAIN start_datetimes.task
    /\ ansible_basedir = replace("/plays", ".", "_")
    /\ ansible_playbook = split_first(basename("deploy.yml"))
    /\ ansible_play = <<"web">>
    /\ ansible_task = <<"install pkg">>

\* a handler was called in this step (a repeated call that changes nothing
\* is no step)
Called == last'.event # last.event \/ last' # last

\* C6 as the spec states it: with 2.5 s (one clock tick) between the start of
\* u1 and its ok result, the two lines carry the basedir segment "_plays".
C6_SpecExample ==
    [][(Called /\ C6_Case' /\ now - start_datetimes.task["u1"] = 1) =>
        last'.metrics =
            << "ansible.counter._plays.deploy.web.install pkg.node1.ok:1|c",
               "ansible.gauge._plays.deploy.web.install pkg.node1.ok:2.5|g" >>]_vars

\* C6 amended: in that case the two lines carry the basedir segment "/plays":
\* only "." is replaced, and "/plays" holds none.
C6_ExampleLines ==
    [][(Called /\ C6_Case' /\ now - start_datetimes.task["u1"] = 1) =>
        last'.metrics =
            << "ansible.counter./plays.deploy.web.install pkg.node1.ok:1|c",
               "ansible.gauge./plays.deploy.web.install pkg.node1.ok:2.5|g" >>]_vars

\* the example happened: its result came 2.5 s after the start of u1
C6_Witness ==
    /\ C6_Case
    /\ Len(last.metrics) = 2
    /\ last.metrics[2] = task_gauge("node1", "ok", 1)
    /\ start_datetimes.task["u1"] = 0

TaskStartEvents == {"v2_playbook_on_task_start", "v2_playbook_on_handler_task_start"}

\* C7: a task start or handler task start for a uuid records the current time
\* for that uuid and changes no other entry, no other call changes an entry,
\* and the gauge of a v2_runner_on_* call carries the time from the entry of
\* the result's own uuid to the call, which is not negative.
C7_ElapsedSinceLatestStart ==
    [][/\ (Called /\ last'.event \in TaskStartEvents) =>
            start_datetimes'.task =
                [u \in DOMAIN start_datetimes.task \cup {last'.args[1]} |->
                    IF u = last'.args[1] THEN now ELSE start_datetimes.task[u]]
       /\ ~(Called /\ last'.event \in TaskStartEvents) =>
            start_datetimes'.task = start_datetimes.task
       /\ (Called /\ IsRunner' /\ last'.metrics # <<>>) =>
            /\ now - start_datetimes.task[last'.args[1]] >= 0
            /\ last'.metrics[2] =
                   task_gauge(last'.args[2], last'.args[3],
                              now - start_datetimes.task[last'.args[1]])]_vars

\* the result of u1 arrived one tick after its start, at a time when u2 had
\* started after u1
C7_Witness ==
    /\ IsRunner
    /\ last.args[1] = "u1"
    /\ DOMAIN start_datetimes.task = {"u1", "u2"}
    /\ start_datetimes.task["u1"] = 0
    /\ start_datetimes.task["u2"] = 1
    /\ Len(last.metrics) = 2
    /\ last.metrics[2] = task_gauge("node1", last.args[3], 1)

\* the (category, host) pairs of a stats structure whose category is not empty
StatsPairs(stats) ==
    UNION { { <<stats[i][1], stats[i][2][j][1]>> : j \in 1..Len(stats[i][2]) } :
            i \in 1..Len(stats) }

\* how many of the metrics passed to send_metric by the most recent call
\* satisfy P
CountCalls(P(_)) == Cardinality({i \in 1..last.calls : P(Calls[i])})

IsGaugeLine(metric) == SubSeq(metric, 1, 14) = "ansible.gauge."

\* C8: a v2_playbook_on_stats call made after a playbook start passes to
\* send_metric, for every (category, host) pair of a non-empty category,
\* the counter "ansible.counter.stats.{basedir}.{playbook}.{category}.{host}:1|c"
\* exactly once and one gauge, and nothing else, whatever the counts are.
C8_OnePairPerHost ==
    (IsStats /\ start_datetimes.playbook # <<>>) =>
        LET pairs == StatsPairs(last.args[1])
        IN  /\ \A pair \in pairs :
                 LET IsCounterOfPair(metric) == metric = stats_counter(pair[1], pair[2])
                 IN  CountCalls(IsCounterOfPair) = 1
            /\ CountCalls(IsGaugeLine) = Cardinality(pairs)
            /\ last.calls = 2 * Cardinality(pairs)

\* C9: a run of main() that reported success made exactly one call on the
\* client: incr with the value for a counter, gauge with the value and the
\* delta flag for a gauge.
C9_SuccessMeansOneSend ==
    (\E i \in 1..Len(m_reports) : ~m_reports[i].failed) =>
        /\ Len(m_sends) = 1
        /\ m_sends[1].value = m_params.value
        /\ \/ m_params.metric_type = <<"counter">> /\ m_sends[1].op = "incr"
           \/ /\ m_params.metric_type = <<"gauge">>
              /\ m_sends[1].op = "gauge"
              /\ m_sends[1].delta = m_params.delta

C11_SocketClosedAfterSend ==
    \A i \in 1..Len(last.wire) : socket_closed(last.wire[i])

\* task.get_name() of the task with this uuid
TaskName(uuid) == (CHOOSE task \in Tasks : task.uuid = uuid).name

\* C12: a handler task start for a uuid records the current time for that
\* uuid and leaves the task name, the basedir, the playbook, the play and the
\* check mode as they were; a task start for a uuid records the current time
\* for it, sets the task name to the name of its task and leaves the other
\* four as they were.
C12_HandlerStartKeepsTaskName ==
    [][/\ (Called /\ last'.event = "v2_playbook_on_handler_task_start") =>
            /\ last'.args[1] \in DOMAIN start_datetimes'.task
            /\ start_datetimes'.task[last'.args[1]] = now
            /\ context' = context
       /\ (Called /\ last'.event = "v2_playbook_on_task_start") =>
            /\ last'.args[1] \in DOMAIN start_datetimes'.task
            /\ start_datetimes'.task[last'.args[1]] = now
            /\ ansible_task' = << TaskName(last'.args[1]) >>
            /\ << ansible_check_mode, ansible_basedir, ansible_playbook, ansible_play >>' =
                   << ansible_check_mode, ansible_basedir, ansible_playbook, ansible_play >>]_vars

\* the handler task u2 ("restart svc") started one tick after the task u1
\* ("install pkg"), and the task name is still the one of u1
C12_Witness ==
    /\ last.event = "v2_playbook_on_handler_task_start"
    /\ last.args = <<"u2", 1>>
    /\ ansible_task = <<"install pkg">>
    /\ DOMAIN start_datetimes.task = {"u1", "u2"}
    /\ start_datetimes.task["u1"] = 0
    /\ start_datetimes.task["u2"] = 1

IsCounterLine(metric) == SubSeq(metric, 1, 16) = "ansible.counter."

\* C13: the lines of a v2_runner_on_* or v2_playbook_on_stats call are sent
\* inside that call, in the order composed: when the call returns, every
\* line it composed was passed to send_metric, and outside check mode each
\* of them went to its socket before the next one; the lines on the wire are
\* counter, gauge, counter, gauge, ..., the counter of a result first.  No
\* other handler sends anything, so no line is left for a later call.
C13_SentInsideHandlerInOrder ==
    /\ ~(IsRunner \/ IsStats) => (last.metrics = <<>> /\ last.wire = <<>>)
    /\ (IsRunner \/ IsStats) =>
           /\ last.raised = "" => last.calls = Len(last.metrics)
           /\ ~ansible_check_mode => Len(last.wire) = last.calls
           /\ ansible_check_mode => last.wire = <<>>
           /\ \A i \in 1..Len(WireLines) :
                  IF i % 2 = 1 THEN IsCounterLine(WireLines[i]) ELSE IsGaugeLine(WireLines[i])
    /\ (IsRunner /\ last.metrics # <<>>) =>
           last.metrics[1] = task_counter(last.args[2], last.args[3])

\* a result was handled outside check mode and both its lines went out, the
\* counter line on the first socket and the gauge line on the second
C13_Witness ==
    /\ IsRunner
    /\ last.wire = <<"ok", "ok">>
    /\ IsCounterLine(WireLines[1])
    /\ IsGaugeLine(WireLines[2])

\* C14: the task uuids with a recorded start only become more: no step
\* removes an entry, whatever handler is called (a result, the stats, a new
\* playbook or play start), and the time of an entry changes only when a
\* task start or handler task start for that same uuid is handled.
C14_StartedTasksOnlyGrow ==
    [][/\ DOMAIN start_datetimes.task \subseteq DOMAIN start_datetimes'.task
       /\ \A u \in DOMAIN start_datetimes.task :
              start_datetimes'.task[u] # start_datetimes.task[u] =>
                  (Called /\ last'.event \in TaskStartEvents /\ last'.args[1] = u)
       /\ \A u \in DOMAIN start_datetimes'.task \ DOMAIN start_datetimes.task :
              (Called /\ last'.event \in TaskStartEvents /\ last'.args[1] = u)]_vars

\* a playbook started one tick after the starts of u1 and u2 were recorded,
\* and both entries are still there
C14_Witness ==
    /\ last.event = "v2_playbook_on_start"
    /\ start_datetimes.playbook = <<1>>
    /\ start_datetimes.play # <<>>
    /\ DOMAIN start_datetimes.task = {"u1", "u2"}
    /\ start_datetimes.task["u1"] = 0
    /\ start_datetimes.task["u2"] = 0

\* C15: the gauge lines a v2_playbook_on_stats call composes are all the same
\* line, "ansible.gauge.stats.{basedir}.{playbook}:{runtime}|g": the name has
\* no category and no host, and the value is the time from the most recent
\* playbook start to the call.
C15_StatsGaugesIdentical ==
    [][(Called /\ IsStats') =>
          \A i \in 1..Len(last'.metrics) :
             IsGaugeLine(last'.metrics[i]) =>
                 last'.metrics[i] =
                     "ansible.gauge.stats." \o ansible_basedir \o "." \o ansible_playbook
                         \o ":" \o total_seconds_str(now - start_datetimes.playbook[1])
                         \o "|g"]_vars

\* the stats of two hosts arrived one tick after the playbook start: two
\* gauge lines were composed, both carrying 2.5 s
C15_Witness ==
    /\ IsStats
    /\ start_datetimes.playbook = <<0>>
    /\ Len(last.metrics) = 4
    /\ IsGaugeLine(last.metrics[2])
    /\ last.metrics[2] = stats_gauge(1)
    /\ last.metrics[4] = last.metrics[2]

\* to is from with every "." replaced by "_" and every other character kept
DotsReplaced(from, to) ==
    /\ Len(to) = Len(from)
    /\ \A i \in 1..Len(from) :
           SubSeq(to, i, i) = (IF SubSeq(from, i, i) = "." THEN "_" ELSE SubSeq(from, i, i))

\* metric begins with prefix, then segment, then "."
BeginsWith(metric, prefix, segment) ==
    SubSeq(metric, 1, Len(prefix) + Len(segment) + 1) = prefix \o segment \o "."

\* C16: a playbook start turns the basedir it is given into the basedir
\* segment by replacing every "." by "_" and keeping every other character;
\* no other call changes the segment, it never holds a ".", and every line
\* a later v2_runner_on_* or v2_playbook_on_stats call composes carries it
\* right after "ansible.counter." / "ansible.gauge." (with "stats." for the
\* stats lines).
C16_BasedirDotsReplaced ==
    [][/\ (Called /\ last'.event = "v2_playbook_on_start") =>
            DotsReplaced(last'.args[1], ansible_basedir')
       /\ ~(Called /\ last'.event = "v2_playbook_on_start") =>
            ansible_basedir' = ansible_basedir
       /\ FindFirst(ansible_basedir', ".", 1) = 0
       /\ (Called /\ IsRunner') =>
            \A i \in 1..Len(last'.metrics) :
               \/ BeginsWith(last'.metrics[i], "ansible.counter.", ansible_basedir)
               \/ BeginsWith(last'.metrics[i], "ansible.gauge.", ansible_basedir)
       /\ (Called /\ IsStats') =>
            \A i \in 1..Len(last'.metrics) :
               \/ BeginsWith(last'.metrics[i], "ansible.counter.stats.", ansible_basedir)
               \/ BeginsWith(last'.metrics[i], "ansible.gauge.stats.", ansible_basedir)]_vars

\* after a playbook start with basedir "/opt/foo.bar/plays" a result was
\* handled, and its lines carry "/opt/foo_bar/plays"
C16_Witness ==
    /\ IsRunner
    /\ Len(last.metrics) = 2
    /\ ansible_basedir = "/opt/foo_bar/plays"
    /\ BeginsWith(last.metrics[1], "ansible.counter.", "/opt/foo_bar/plays")
    /\ BeginsWith(last.metrics[2], "ansible.gauge.", "/opt/foo_bar/plays")

\* C18: v2_playbook_on_stats leaves the check mode as it finds it, and the
\* check mode is true from the start and changed by v2_runner_on_* calls
\* only, each of which sets it to false when its result carries check_mode
\* false and to true otherwise.  So a v2_playbook_on_stats call made after a
\* playbook start puts all its lines on the wire when the most recent
\* v2_runner_on_* call carried check_mode false, and none when there was no
\* such call before it or the most recent one carried true or no check_mode.
C18_StatsSendsFollowLastResult ==
    [][/\ pc = "new" => ansible_check_mode
       /\ (Called /\ IsRunner') => ansible_check_mode' = ~(last'.args[4] = <<FALSE>>)
       /\ ~(Called /\ IsRunner') => ansible_check_mode' = ansible_check_mode
       /\ (Called /\ IsStats' /\ start_datetimes.playbook # <<>>) =>
            SubSeq(last'.metrics, 1, Len(last'.wire)) =
                (IF ansible_check_mode THEN <<>>
                 ELSE outer_loop(last'.args[1], now - start_datetimes.playbook[1]))]_vars

\* what precedes the task segment in the lines of a v2_runner_on_* call
TaskLinePrefix(kind_of_line) ==
    "ansible." \o kind_of_line \o "." \o ansible_basedir \o "." \o ansible_playbook \o "."
        \o ansible_play[1] \o "."

\* C19: the task name is the name of the task of the most recent task start
\* (a task start sets it, no other call changes it), and both lines of a
\* v2_runner_on_* call carry that name as their task segment, while the
\* gauge carries the time since the start recorded for the result's own
\* uuid.  The name and the duration can thus belong to different tasks.
C19_TaskNameOfLatestTaskStart ==
    [][/\ (Called /\ last'.event = "v2_playbook_on_task_start") =>
            ansible_task' = << TaskName(last'.args[1]) >>
       /\ ~(Called /\ last'.event = "v2_playbook_on_task_start") =>
            ansible_task' = ansible_task
       /\ (Called /\ IsRunner' /\ last'.metrics # <<>>) =>
            /\ BeginsWith(last'.metrics[1], TaskLinePrefix("counter"), ansible_task[1])
            /\ BeginsWith(last'.metrics[2], TaskLinePrefix("gauge"), ansible_task[1])
            /\ last'.metrics[2] =
                   task_gauge(last'.args[2], last'.args[3],
                              now - start_datetimes.task[last'.args[1]])]_vars

\* the result of u1 ("install pkg") arrived after the task start of u2
\* ("restart svc"): its lines are named "restart svc" and report the 2.5 s
\* since the start of u1
C19_Witness ==
    /\ IsRunner
    /\ last.args[1] = "u1"
    /\ Len(last.metrics) = 2
    /\ ansible_task = <<"restart svc">>
    /\ TaskName(last.args[1]) # ansible_task[1]
    /\ BeginsWith(last.metrics[2], TaskLinePrefix("gauge"), "restart svc")
    /\ start_datetimes.task["u1"] = 0
    /\ last.metrics[2] = task_gauge(last.args[2], last.args[3], 1)

\* C20: a v2_runner_on_* call for a uuid with no recorded start raises
\* KeyError and uses no socket, yet it has set the check mode from its
\* result (false for check_mode false, true otherwise); the recorded starts,
\* the basedir, the playbook, the play and the task name are as before.  The
\* check mode it left decides whether a following v2_playbook_on_stats call
\* that has lines to send uses sockets or not.
C20_FailedResultSetsCheckMode ==
    [][/\ (Called /\ IsRunner' /\ last'.args[1] \notin DOMAIN start_datetimes.task) =>
            /\ last'.raised = "KeyError"
            /\ last'.wire = <<>>
            /\ ansible_check_mode' = ~(last'.args[4] = <<FALSE>>)
            /\ start_datetimes' = start_datetimes
            /\ << ansible_basedir, ansible_playbook, ansible_play, ansible_task >>' =
                   << ansible_basedir, ansible_playbook, ansible_play, ansible_task >>
       /\ (Called /\ IsStats' /\ last'.metrics # <<>>) =>
            (last'.wire = <<>>) = ansible_check_mode]_vars

\* no task start was ever recorded, so every result so far failed its
\* lookup; one of them carried check_mode false, and the stats that followed
\* went out on four sockets
C20_Witness ==
    /\ IsStats
    /\ start_datetimes.task = <<>>
    /\ ~ansible_check_mode
    /\ last.wire = <<"ok", "ok", "ok", "ok">>

====
